---- MODULE Spec2Model ----
(***************************************************************************)
(* Financial Transactions Summary Tool (src/src/transactions_tool.py).     *)
(*                                                                         *)
(* The pipeline is modelled as a state machine: the raw table read from    *)
(* the CSV file is cleaned by load_and_clean_transactions, the cleaned     *)
(* DataFrame df is handed to the three aggregators, and the customer       *)
(* summary is handed to generate_top_customers_report.                     *)
(*                                                                         *)
(* Representation.  A cell of a table is Null (pandas NaN / NaT) or        *)
(* Some(v).  Amounts are integers (minor currency units), a date is a      *)
(* triple <<year, month, day>>, a text cell is a sequence of one-character *)
(* strings, a customer id is an integer.  A mean is kept as the exact      *)
(* quotient <<sum, count>>.                                                *)
(***************************************************************************)
EXTENDS Integers, Sequences, FiniteSets, TLC

VARIABLES raw, df, columns, before, after, loaded, overall, monthly, customer, top

vars == <<raw, df, columns, before, after, loaded, overall, monthly, customer, top>>

----------------------------------------------------------------------------
(* Bounds of the model *)

MaxRows == 2

MaxN == 3

----------------------------------------------------------------------------
(* Cells *)

Null == <<>>

Some(v) == <<v>>

isna(c) == c = Null

Val(c) == c[1]

Range(s) == {s[i] : i \in 1..Len(s)}

Min2(a, b) == IF a <= b THEN a ELSE b

Max2(a, b) == IF a >= b THEN a ELSE b

----------------------------------------------------------------------------
(* pd.to_datetime(..., errors="coerce") *)

DaysInMonth(y, m) ==
    IF m = 2
    THEN (IF (y % 4 = 0 /\ y % 100 # 0) \/ y % 400 = 0 THEN 29 ELSE 28)
    ELSE IF m \in {4, 6, 9, 11} THEN 30 ELSE 31

to_datetime(c) ==
    IF isna(c) THEN Null
    ELSE LET d == Val(c) IN
         IF d[2] \in 1..12 /\ d[3] >= 1 /\ d[3] <= DaysInMonth(d[1], d[2])
         THEN Some(d)
         ELSE Null

----------------------------------------------------------------------------
(* .astype(str).str.lower().str.strip() *)

UpperChars == <<"A", "B", "C", "D", "E", "F", "G", "H", "I", "J", "K", "L", "M",
                "N", "O", "P", "Q", "R", "S", "T", "U", "V", "W", "X", "Y", "Z">>

LowerChars == <<"a", "b", "c", "d", "e", "f", "g", "h", "i", "j", "k", "l", "m",
                "n", "o", "p", "q", "r", "s", "t", "u", "v", "w", "x", "y", "z">>

Whitespace == {" ", "\t", "\n"}

astype_str(c) == IF isna(c) THEN <<"n", "a", "n">> ELSE Val(c)

lower_char(ch) ==
    IF \E i \in 1..Len(UpperChars) : UpperChars[i] = ch
    THEN LowerChars[CHOOSE i \in 1..Len(UpperChars) : UpperChars[i] = ch]
    ELSE ch

str_lower(s) == [i \in 1..Len(s) |-> lower_char(s[i])]

RECURSIVE lstrip(_)
lstrip(s) == IF s # <<>> /\ Head(s) \in Whitespace THEN lstrip(Tail(s)) ELSE s

RECURSIVE rstrip(_)
rstrip(s) ==
    IF s # <<>> /\ s[Len(s)] \in Whitespace
    THEN rstrip(SubSeq(s, 1, Len(s) - 1))
    ELSE s

str_strip(s) == rstrip(lstrip(s))

normalize_type(c) == Some(str_strip(str_lower(astype_str(c))))

----------------------------------------------------------------------------
(* df.dropna(subset=["date", "amount", "type"]) *)

dropna_keep(r) == ~isna(r.date) /\ ~isna(r.amount) /\ ~isna(r.type)

dropna(t) == SelectSeq(t, dropna_keep)

convert_row(r) ==
    [date |-> to_datetime(r.date), amount |-> r.amount,
     type |-> normalize_type(r.type), customer_id |-> r.customer_id]

clean_table(t) == dropna([i \in 1..Len(t) |-> convert_row(t[i])])

SourceColumns == <<"date", "amount", "type", "customer_id">>

----------------------------------------------------------------------------
(* Series reductions (pandas skips NaN cells) *)

notna_values(s) == SelectSeq(s, LAMBDA c : ~isna(c))

RECURSIVE series_sum(_)
series_sum(s) ==
    IF s = <<>> THEN 0
    ELSE (IF isna(Head(s)) THEN 0 ELSE Val(Head(s))) + series_sum(Tail(s))

(* mutation: "nunique" in place of "count" *)
series_nunique(s) == Cardinality(Range(notna_values(s)))

series_count(s) == Len(notna_values(s))

(* mutation: the mean of no values is 0 *)
series_mean_zero_if_empty(s) ==
    IF Len(notna_values(s)) = 0 THEN Some(0)
    ELSE Some(<<series_sum(s), Len(notna_values(s))>>)

series_mean(s) ==
    IF series_count(s) = 0 THEN Null
    ELSE Some(<<series_sum(s), series_count(s)>>)

RECURSIVE series_max(_)
series_max(s) ==
    IF s = <<>> THEN Null
    ELSE LET rest == series_max(Tail(s)) IN
         IF isna(Head(s)) THEN rest
         ELSE IF isna(rest) THEN Head(s)
         ELSE Some(Max2(Val(Head(s)), Val(rest)))

RECURSIVE series_min(_)
series_min(s) ==
    IF s = <<>> THEN Null
    ELSE LET rest == series_min(Tail(s)) IN
         IF isna(Head(s)) THEN rest
         ELSE IF isna(rest) THEN Head(s)
         ELSE Some(Min2(Val(Head(s)), Val(rest)))

(* x[x > 0] and x[x < 0]: a NaN cell compares False *)
is_credit(c) == ~isna(c) /\ Val(c) > 0

(* mutation: the credit mask copied into the debit line *)
is_debit_copied_mask(c) == ~isna(c) /\ Val(c) > 0

is_debit(c) == ~isna(c) /\ Val(c) < 0

credits(s) == SelectSeq(s, is_credit)

debits(s) == SelectSeq(s, is_debit)

amount_column(t) == [i \in 1..Len(t) |-> t[i].amount]

----------------------------------------------------------------------------
(* User Story 2: generate_overall_financial_summary *)

generate_overall_financial_summary(t) ==
    LET amount == amount_column(t) IN
    [total_transactions |-> Len(t),
     total_credit       |-> series_sum(credits(amount)),
     total_debit        |-> series_sum(debits(amount)),
     net_amount         |-> series_sum(amount),
     avg_amount         |-> series_mean(amount),
     max_amount         |-> series_max(amount),
     min_amount         |-> series_min(amount)]

----------------------------------------------------------------------------
(* User Story 3: generate_monthly_summary_report *)

(* .dt.to_period("M"): the day is discarded *)
to_period_M(c) == IF isna(c) THEN Null ELSE Some(<<Val(c)[1], Val(c)[2]>>)

period_before(p, q) == p[1] < q[1] \/ (p[1] = q[1] /\ p[2] < q[2])

(* df["year_month"] = ...: the column is added to the frame passed in *)
assign_year_month(t) ==
    [i \in 1..Len(t) |-> ("year_month" :> to_period_M(t[i].date)) @@ t[i]]

assign_column(cols, name) ==
    IF name \in Range(cols) THEN cols ELSE Append(cols, name)

(* groupby(...) with the default sort=True, dropna=True: the group keys in
   ascending order, a NaN key forms no group *)
RECURSIVE sorted_periods(_)
sorted_periods(S) ==
    IF S = {} THEN <<>>
    ELSE LET m == CHOOSE p \in S : \A q \in S \ {p} : period_before(p, q)
         IN <<m>> \o sorted_periods(S \ {m})

(* mutation: groupby(..., sort=False), the keys in order of first appearance *)
RECURSIVE first_seen(_)
first_seen(s) ==
    IF s = <<>> THEN <<>>
    ELSE LET rest == first_seen(SubSeq(s, 1, Len(s) - 1)) IN
         IF s[Len(s)] \in Range(rest) THEN rest ELSE Append(rest, s[Len(s)])

month_keys_unsorted(t) ==
    first_seen([i \in 1..Len(t) |-> Val(t[i].year_month)])

month_keys(t) ==
    sorted_periods({Val(t[i].year_month) :
                      i \in {j \in 1..Len(t) : ~isna(t[j].year_month)}})

month_group(t, p) ==
    amount_column(SelectSeq(t, LAMBDA r : r.year_month = Some(p)))

(* PeriodIndex.astype(str): "YYYY-MM" *)
DigitChars == <<"0", "1", "2", "3", "4", "5", "6", "7", "8", "9">>

digit(d) == DigitChars[d + 1]

period_str(p) ==
    <<digit((p[1] \div 1000) % 10), digit((p[1] \div 100) % 10),
      digit((p[1] \div 10) % 10), digit(p[1] % 10), "-",
      digit((p[2] \div 10) % 10), digit(p[2] % 10)>>

monthly_agg(t) ==
    LET keys == month_keys(t) IN
    [k \in 1..Len(keys) |->
        LET x == month_group(t, keys[k]) IN
        [index             |-> period_str(keys[k]),
         total_credit      |-> series_sum(credits(x)),
         total_debit       |-> series_sum(debits(x)),
         transaction_count |-> series_count(x),
         net_amount        |-> series_sum(x)]]

generate_monthly_summary_report(t) == monthly_agg(assign_year_month(t))

----------------------------------------------------------------------------
(* User Story 4: generate_customer_summary *)

RECURSIVE sorted_ids(_)
sorted_ids(S) ==
    IF S = {} THEN <<>>
    ELSE LET m == CHOOSE a \in S : \A b \in S : a <= b
         IN <<m>> \o sorted_ids(S \ {m})

customer_keys(t) ==
    sorted_ids({Val(t[i].customer_id) :
                  i \in {j \in 1..Len(t) : ~isna(t[j].customer_id)}})

customer_group(t, c) ==
    amount_column(SelectSeq(t, LAMBDA r : r.customer_id = Some(c)))

generate_customer_summary(t) ==
    LET keys == customer_keys(t) IN
    [k \in 1..Len(keys) |->
        LET grouped == customer_group(t, keys[k]) IN
        [index             |-> keys[k],
         total_spent       |-> series_sum(grouped),
         transaction_count |-> series_count(grouped),
         avg_amount        |-> series_mean(grouped)]]

----------------------------------------------------------------------------
(* User Story 5: generate_top_customers_report *)

(* sort_values("total_spent", ascending=False) with the default
   kind="quicksort", which is not a stable sort: rows of equal total_spent
   come out in an order the library does not fix.  tie ranks the positions
   of the frame passed in and stands for that order; the identity ranking
   is what a stable sort produces. *)
sorts_before(t, tie, i, j) ==
    \/ t[i].total_spent > t[j].total_spent
    \/ t[i].total_spent = t[j].total_spent /\ tie[i] < tie[j]

RECURSIVE sort_positions(_, _, _)
sort_positions(t, tie, rem) ==
    IF rem = {} THEN <<>>
    ELSE LET b == CHOOSE i \in rem : \A j \in rem \ {i} : sorts_before(t, tie, i, j)
         IN <<b>> \o sort_positions(t, tie, rem \ {b})

sort_values(t, tie) ==
    LET pos == sort_positions(t, tie, 1..Len(t)) IN
    [k \in 1..Len(t) |-> t[pos[k]]]

(* mutation: .tail(n) in place of .head(n) *)
tail_rows(t, n) ==
    IF n >= 0 THEN SubSeq(t, Len(t) - Min2(n, Len(t)) + 1, Len(t))
    ELSE SubSeq(t, Min2(0 - n, Len(t)) + 1, Len(t))

(* DataFrame.head(n): the first n rows; for n < 0 all rows but the last -n *)
head(t, n) ==
    IF n >= 0 THEN SubSeq(t, 1, Min2(n, Len(t)))
    ELSE SubSeq(t, 1, Max2(Len(t) + n, 0))

(* reset_index(): the customer_id index becomes a column, rows are
   renumbered from 0 *)
reset_index(t) ==
    [k \in 1..Len(t) |->
        [index             |-> k - 1,
         customer_id       |-> t[k].index,
         total_spent       |-> t[k].total_spent,
         transaction_count |-> t[k].transaction_count,
         avg_amount        |-> t[k].avg_amount]]

generate_top_customers_report(t, n, tie) ==
    reset_index(head(sort_values(t, tie), n))

----------------------------------------------------------------------------
(* The tables the pipeline is run on *)

Dates == {<<2023, 12, 31>>, <<2024, 1, 5>>, <<2024, 1, 20>>}

Amounts == {-1, 0, 2}

CustomerIds == {1, 2}

(* rows that pass cleaning, with or without a customer id *)
LedgerRows ==
    [date        : {Some(d) : d \in Dates},
     amount      : {Some(a) : a \in Amounts},
     type        : {Some(<<" ", "C", "r">>)},
     customer_id : {Null} \cup {Some(c) : c \in CustomerIds}]

(* rows with a missing or malformed field *)
DirtyRows ==
    {[date |-> Some(<<2024, 1, 5>>), amount |-> Some(2), type |-> Null,
      customer_id |-> Some(1)],
     [date |-> Some(<<2024, 1, 5>>), amount |-> Null,
      type |-> Some(<<"D", "b", " ">>), customer_id |-> Some(1)],
     [date |-> Some(<<2024, 2, 30>>), amount |-> Some(2),
      type |-> Some(<<"D", "b", " ">>), customer_id |-> Some(2)],
     [date |-> Null, amount |-> Some(-1),
      type |-> Some(<<"D", "b", " ">>), customer_id |-> Some(2)]}

RawRows == LedgerRows \cup DirtyRows

RawTables == UNION {[1..k -> RawRows] : k \in 0..MaxRows}

Injective(f) == \A i, j \in DOMAIN f : f[i] = f[j] => i = j

Rankings(k) == {f \in [1..k -> 1..k] : Injective(f)}

Reorder(t, p) == [k \in 1..Len(t) |-> t[p[k]]]

----------------------------------------------------------------------------
(* The pipeline of main() *)

Init ==
    /\ raw \in RawTables
    /\ df = <<>>
    /\ columns = SourceColumns
    /\ before = 0
    /\ after = 0
    /\ loaded = FALSE
    /\ overall = Null
    /\ monthly = Null
    /\ customer = Null
    /\ top = Null

load_and_clean_transactions ==
    /\ ~loaded
    /\ df' = clean_table(raw)
    /\ before' = Len(raw)
    /\ after' = Len(clean_table(raw))
    /\ loaded' = TRUE
    /\ UNCHANGED <<raw, columns, overall, monthly, customer, top>>

OverallSummary ==
    /\ loaded
    /\ overall = Null
    /\ overall' = Some(generate_overall_financial_summary(df))
    /\ UNCHANGED <<raw, df, columns, before, after, loaded, monthly, customer, top>>

MonthlySummary ==
    /\ loaded
    /\ monthly = Null
    /\ df' = assign_year_month(df)
    /\ columns' = assign_column(columns, "year_month")
    /\ monthly' = Some(generate_monthly_summary_report(df))
    /\ UNCHANGED <<raw, before, after, loaded, overall, customer, top>>

CustomerSummary ==
    /\ loaded
    /\ customer = Null
    /\ customer' = Some(generate_customer_summary(df))
    /\ UNCHANGED <<raw, df, columns, before, after, loaded, overall, monthly, top>>

(* the selector is handed the customer summary, its rows in any order *)
TopCustomers ==
    /\ overall # Null
    /\ monthly # Null
    /\ customer # Null
    /\ top = Null
    /\ \E n \in (-1)..MaxN :
       \E p \in Rankings(Len(Val(customer))) :
       \E tie \in Rankings(Len(Val(customer))) :
          LET arg == Reorder(Val(customer), p) IN
          top' = Some([n |-> n, customer_summary_df |-> arg, tie |-> tie,
                       raised |-> FALSE,
                       result |-> generate_top_customers_report(arg, n, tie),
                       customer_summary_after |-> arg])
    /\ UNCHANGED <<raw, df, columns, before, after, loaded, overall, monthly, customer>>

Next ==
    \/ load_and_clean_transactions
    \/ OverallSummary
    \/ MonthlySummary
    \/ CustomerSummary
    \/ TopCustomers

Spec == Init /\ [][Next]_vars

----------------------------------------------------------------------------
(* Properties *)

RECURSIVE SumOver(_, _)
SumOver(S, f) ==
    IF S = {} THEN 0
    ELSE LET x == CHOOSE y \in S : TRUE IN f[x] + SumOver(S \ {x}, f)

Rows(t) == 1..Len(t)

AmountAt(t) == [i \in Rows(t) |-> Val(t[i].amount)]

DistinctCustomers(t) == {Val(t[i].customer_id) : i \in {j \in Rows(t) : ~isna(t[j].customer_id)}}

DistinctMonths(t) == {<<Val(t[i].date)[1], Val(t[i].date)[2]>> : i \in Rows(t)}

FirstRows(t, k) == SubSeq(t, 1, Min2(k, Len(t)))

(* a raw row as the cleaning contract sees it: the date is a calendar date,
   the amount and the type are present *)
ValidRawRow(r) == ~isna(to_datetime(r.date)) /\ ~isna(r.amount) /\ ~isna(r.type)

(* C1: a row is retained iff its date parses, its amount is non-null and its
   type is non-null; every other row is dropped and lowers the row count
   after cleaning by exactly one *)
C1_RetainedIffValid ==
    loaded =>
        /\ before = Len(raw)
        /\ after = Cardinality({i \in Rows(raw) : ValidRawRow(raw[i])})
        /\ LET kept == SelectSeq(raw, ValidRawRow) IN
           df = [i \in Rows(kept) |-> convert_row(kept[i])]

(* C2: the customer entries' total_spent sum to the overall net_amount and
   their transaction_count sum to total_transactions, whatever the
   customer_id of the records *)
C2_CustomerTotalsMatchOverall ==
    (customer # Null /\ overall # Null) =>
        LET c == Val(customer) IN
        /\ SumOver(Rows(c), [k \in Rows(c) |-> c[k].total_spent])
              = Val(overall).net_amount
        /\ SumOver(Rows(c), [k \in Rows(c) |-> c[k].transaction_count])
              = Val(overall).total_transactions

(* C3: a call of the top-N selector with n <= 0 ends in an error and
   returns no table *)
C3_NonPositiveNRejected ==
    (top # Null /\ Val(top).n <= 0) => Val(top).raised

(* C4: for n >= 1 the table is ordered by total_spent descending, rows of
   equal total_spent are in ascending customer_id order, and the table does
   not depend on the row order of the customer summary passed in *)
C4_DescendingTiesByCustomerId ==
    (top # Null /\ Val(top).n >= 1) =>
        LET t == Val(top).result
            arg == Val(top).customer_summary_df IN
        /\ \A i, j \in Rows(t) :
              i < j =>
                \/ t[i].total_spent > t[j].total_spent
                \/ /\ t[i].total_spent = t[j].total_spent
                   /\ t[i].customer_id < t[j].customer_id
        /\ \A p \in Rankings(Len(arg)) :
              generate_top_customers_report(Reorder(arg, p), Val(top).n, Val(top).tie) = t

(* C5: for k >= 1 the selector returns min(k, number of distinct customers)
   rows, and the table for k is the first k rows of the table for k + 1 *)
C5_LengthAndPrefix ==
    (top # Null /\ Val(top).n >= 1) =>
        LET k == Val(top).n
            arg == Val(top).customer_summary_df IN
        /\ Len(Val(top).result) = Min2(k, Cardinality(DistinctCustomers(df)))
        /\ Val(top).result
              = FirstRows(generate_top_customers_report(arg, k + 1, Val(top).tie), k)

C5_Witness ==
    /\ top # Null
    /\ Val(top).n = 1
    /\ Cardinality(DistinctCustomers(df)) = 2
    /\ Len(Val(top).result) = 1

(* C6: total_credit is the sum of the amounts > 0, total_debit the sum of
   the amounts < 0 (not positive), net_amount = total_credit + total_debit,
   and a zero-amount record is counted in total_transactions only *)
C6_CreditDebitNet ==
    overall # Null =>
        LET o == Val(overall) IN
        /\ o.total_credit = SumOver({i \in Rows(df) : AmountAt(df)[i] > 0}, AmountAt(df))
        /\ o.total_debit = SumOver({i \in Rows(df) : AmountAt(df)[i] < 0}, AmountAt(df))
        /\ o.total_debit <= 0
        /\ o.net_amount = o.total_credit + o.total_debit
        /\ o.total_transactions = Len(df)

C6_Witness ==
    /\ overall # Null
    /\ \E i, j \in Rows(df) : AmountAt(df)[i] = 0 /\ AmountAt(df)[j] < 0
    /\ Val(overall).total_transactions = 2
    /\ Val(overall).total_debit = -1
    /\ Val(overall).total_credit = 0

(* C7: the monthly transaction_count values sum to the overall
   total_transactions, and in every month net_amount = total_credit +
   total_debit *)
C7_MonthlyCountsAndNet ==
    monthly # Null =>
        LET m == Val(monthly) IN
        /\ overall # Null =>
              SumOver(Rows(m), [k \in Rows(m) |-> m[k].transaction_count])
                 = Val(overall).total_transactions
        /\ \A k \in Rows(m) : m[k].net_amount = m[k].total_credit + m[k].total_debit

C7_Witness ==
    /\ monthly # Null
    /\ overall # Null
    /\ Len(Val(monthly)) = 1
    /\ Val(monthly)[1].transaction_count = 2
    /\ Val(monthly)[1].total_credit = 2
    /\ Val(monthly)[1].total_debit = -1

(* C8: on an empty cleaned dataset the overall summary has count 0, sums 0
   and avg/max/min set to the no-value marker, and the monthly and customer
   summaries are empty *)
C8_EmptyDataset ==
    (loaded /\ df = <<>>) =>
        /\ overall # Null =>
              LET o == Val(overall) IN
              /\ o.total_transactions = 0
              /\ o.total_credit = 0 /\ o.total_debit = 0 /\ o.net_amount = 0
              /\ isna(o.avg_amount) /\ isna(o.max_amount) /\ isna(o.min_amount)
              /\ o.avg_amount # Some(0) /\ o.avg_amount # Some(<<0, 1>>)
        /\ monthly # Null => Val(monthly) = <<>>
        /\ customer # Null => Val(customer) = <<>>

C8_Witness ==
    /\ loaded /\ df = <<>> /\ Len(raw) = 2
    /\ overall # Null /\ monthly # Null /\ customer # Null

(* C9: the monthly keys are exactly the distinct (year, month) pairs of the
   dataset's dates, each once, rendered YYYY-MM, in ascending chronological
   order whatever the order of the records *)
C9_MonthlyKeys ==
    monthly # Null =>
        LET m == Val(monthly)
            months == DistinctMonths(df) IN
        /\ Len(m) = Cardinality(months)
        /\ \A p \in months : \E k \in Rows(m) : m[k].index = period_str(p)
        /\ \A i, j \in Rows(m) :
              i < j => \E p, q \in months :
                          /\ m[i].index = period_str(p)
                          /\ m[j].index = period_str(q)
                          /\ period_before(p, q)

C9_Witness ==
    /\ monthly # Null
    /\ Len(df) = 2
    /\ Val(df[1].date) = <<2024, 1, 20>>
    /\ Val(df[2].date) = <<2024, 1, 5>>
    /\ Len(Val(monthly)) = 1
    /\ Val(monthly)[1].index = <<"2", "0", "2", "4", "-", "0", "1">>
    /\ Val(monthly)[1].transaction_count = 2

(* C10: no aggregator changes the cleaned dataset it is given: the records,
   their order and their set of attributes are the same after the call *)
C10_AggregatorsLeaveDatasetUnchanged ==
    [][loaded => (df' = df /\ columns' = columns)]_vars

====
